---- MODULE Spec2Model ----
(***************************************************************************)
(* pix2svg: greedy rectangle extraction from an RGBA pixel buffer          *)
(* (ImageProcessor in src/src/lib.rs) and the SVG emission of the          *)
(* rectangle list (Rectangle::to_svg, create_svg).                         *)
(*                                                                         *)
(* Spec      the extraction loop of ImageProcessor::extract_rectangles,    *)
(*           run MaxRuns times on the same pixel buffer.                   *)
(* SpecSvg   create_svg applied to a rectangle slice, first with scale 1   *)
(*           and then with scale k.                                        *)
(* SpecRect  Rectangle::to_svg applied to one rectangle of any alpha.      *)
(***************************************************************************)
EXTENDS Integers, Sequences, FiniteSets, TLC

VARIABLES
    image,            \* ImageProcessor.image: image[y][x] is a Color
    width,            \* ImageProcessor.width
    height,           \* ImageProcessor.height
    processed,        \* ImageProcessor.processed: processed[y][x]
    alpha_threshold,  \* ImageProcessor.alpha_threshold
    rectangles,       \* the Vec<Rectangle> being built / handed to create_svg
    x,                \* loop variable x of extract_rectangles
    y,                \* loop variable y of extract_rectangles
    rect,             \* the local `rect` of the loop body: <<>> or <<r>>
    pc,               \* position in the code
    results,          \* what the completed calls returned, in call order
    writes,           \* writes[y][x]: number of `= true` stores to processed[y][x]
    options,          \* the ConversionOptions handed to create_svg
    svg,              \* the document create_svg is building
    idx,              \* position of create_svg's loop in the rectangle slice
    docs              \* the documents the completed create_svg calls returned

vars == <<image, width, height, processed, alpha_threshold, rectangles, x, y,
          rect, pc, results, writes, options, svg, idx, docs>>

extractVars == <<image, width, height, processed, alpha_threshold, rectangles,
                 x, y, rect, results, writes>>

svgVars == <<options, svg, idx, docs>>

-----------------------------------------------------------------------------
(* Bounds of the model *)

MaxW == 3

MaxH == 3

MaxPixels == 6

MaxRuns == 2

-----------------------------------------------------------------------------
(* Color *)

Color_new(r, g, b, a) == [r |-> r, g |-> g, b |-> b, a |-> a]

\* The pixel values the images of the model are drawn from: two colours that
\* differ in alpha only, and one that differs in RGB and has alpha 0.
Palette ==
    { Color_new(255, 0, 0, 255), Color_new(255, 0, 0, 128), Color_new(0, 0, 255, 0) }

\* Alpha thresholds: nothing transparent, the default, and one above 128.
Thresholds == {0, 1, 129}

\* Compares the RGB channels and forgets the alpha channel.
Color_eq_rgb(c, d) == c.r = d.r /\ c.g = d.g /\ c.b = d.b

\* #[derive(PartialEq)] on Color: all four channels.
Color_eq(c, d) == c.r = d.r /\ c.g = d.g /\ c.b = d.b /\ c.a = d.a

is_transparent(c, threshold) == c.a < threshold

-----------------------------------------------------------------------------
(* ImageProcessor *)

None == <<>>

Some(v) == <<v>>

FreshGrid(w, h, v) == [py \in 0 .. h - 1 |-> [px \in 0 .. w - 1 |-> v]]

\* A coverage grid that survives from the previous call.
StaleProcessed == processed

\* The grid ImageProcessor::new allocates for a further call.
NewProcessed == FreshGrid(width, height, FALSE)

\* A lookup that skips the transparency test.
get_pixel_color_opaque(px, py) ==
    IF px >= width \/ py >= height THEN None ELSE Some(image[py][px])

get_pixel_color(px, py) ==
    IF px >= width \/ py >= height
    THEN None
    ELSE LET color == image[py][px]
         IN  IF is_transparent(color, alpha_threshold) THEN None ELSE Some(color)

\* A lookup that never sees a covered pixel.
is_processed_never(px, py) == FALSE

is_processed(px, py) == processed[py][px]

InRect(r, px, py) ==
    /\ r.x <= px /\ px < r.x + r.width
    /\ r.y <= py /\ py < r.y + r.height

MarkGrid(grid, r) ==
    [py \in DOMAIN grid |->
        [px \in DOMAIN grid[py] |-> IF InRect(r, px, py) THEN TRUE ELSE grid[py][px]]]

\* Marks the rectangle's first row only.
mark_processed_first_row(r) ==
    MarkGrid(processed, [r EXCEPT !.height = 1])

mark_processed(r) == MarkGrid(processed, r)

\* The stores mark_processed makes: one per pixel of the footprint.
CountMarks(r) ==
    [py \in DOMAIN writes |->
        [px \in DOMAIN writes[py] |->
            IF InRect(r, px, py) THEN writes[py][px] + 1 ELSE writes[py][px]]]

Rectangle_new(rx, ry, w, h, color) ==
    [x |-> rx, y |-> ry, width |-> w, height |-> h, color |-> color]

\* The first loop of find_max_rectangle, from column px on.
RECURSIVE WidthScan(_, _, _, _, _)
WidthScan(px, start_x, start_y, color, max_width) ==
    IF px >= width THEN max_width
    ELSE IF is_processed(px, start_y) THEN max_width
    ELSE LET c == get_pixel_color(px, start_y)
         IN  IF c = None THEN max_width
             ELSE IF ~Color_eq(c[1], color) THEN max_width
             ELSE WidthScan(px + 1, start_x, start_y, color, px - start_x + 1)

\* The inner loop of the second loop: can_extend for row py, from column px on.
RECURSIVE CanExtend(_, _, _, _)
CanExtend(px, py, end_x, color) ==
    IF px >= end_x THEN TRUE
    ELSE IF is_processed(px, py) THEN FALSE
    ELSE LET c == get_pixel_color(px, py)
         IN  IF c = None THEN FALSE
             ELSE IF ~Color_eq(c[1], color) THEN FALSE
             ELSE CanExtend(px + 1, py, end_x, color)

\* The second loop of find_max_rectangle, from row py on.
RECURSIVE HeightScan(_, _, _, _, _, _)
HeightScan(py, start_x, start_y, max_width, color, max_height) ==
    IF py >= height THEN max_height
    ELSE IF ~CanExtend(start_x, py, start_x + max_width, color) THEN max_height
    ELSE HeightScan(py + 1, start_x, start_y, max_width, color, py - start_y + 1)

\* Grows the height first, in the anchor's column, and the width afterwards.
find_max_rectangle_tall(start_x, start_y, color) ==
    LET max_height == HeightScan(start_y, start_x, start_y, 1, color, 0)
        Fits(w) == \A py \in start_y .. start_y + max_height - 1 :
                       CanExtend(start_x, py, start_x + w, color)
        max_width == CHOOSE w \in 1 .. width - start_x :
                         Fits(w) /\ (start_x + w < width => ~Fits(w + 1))
    IN  Rectangle_new(start_x, start_y, max_width, max_height, color)

\* Never grows the height.
find_max_rectangle_flat(start_x, start_y, color) ==
    Rectangle_new(start_x, start_y, WidthScan(start_x, start_x, start_y, color, 0), 1, color)

find_max_rectangle(start_x, start_y, color) ==
    LET max_width == WidthScan(start_x, start_x, start_y, color, 0)
        max_height == HeightScan(start_y, start_x, start_y, max_width, color, 0)
    IN  Rectangle_new(start_x, start_y, max_width, max_height, color)

\* Leaves the row after each pixel.
NextPosRow(px, py) == <<0, py + 1>>

\* The nested for loops of extract_rectangles: the position after (px, py).
NextPos(px, py) == IF px + 1 < width THEN <<px + 1, py>> ELSE <<0, py + 1>>

\* Both loops have run out (a row of width 0 has no iteration).
LoopDone == y >= height \/ width = 0

-----------------------------------------------------------------------------
(* Images *)

Dims == { d \in (0 .. MaxW) \X (0 .. MaxH) : d[1] * d[2] <= MaxPixels }

Images(w, h) == [0 .. h - 1 -> [0 .. w - 1 -> Palette]]

NoOptions == [scale |-> 1, alpha_threshold |-> 1, skip_transparent |-> TRUE,
              crisp_edges |-> TRUE]

\* The state after ImageProcessor::new.
Init ==
    /\ \E d \in Dims :
        /\ width = d[1]
        /\ height = d[2]
        /\ image \in Images(d[1], d[2])
        /\ processed = FreshGrid(d[1], d[2], FALSE)
        /\ writes = FreshGrid(d[1], d[2], 0)
    /\ alpha_threshold \in Thresholds
    /\ rectangles = <<>>
    /\ x = 0
    /\ y = 0
    /\ rect = None
    /\ pc = "scan"
    /\ results = <<>>
    /\ options = NoOptions
    /\ svg = <<>>
    /\ idx = 0
    /\ docs = <<>>

\* lib.rs 249-251: the pixel is covered already.
SkipProcessed ==
    /\ pc = "scan" /\ ~LoopDone
    /\ is_processed(x, y)
    /\ x' = NextPos(x, y)[1]
    /\ y' = NextPos(x, y)[2]
    /\ UNCHANGED <<image, width, height, processed, alpha_threshold, rectangles,
                   rect, pc, results, writes, svgVars>>

\* lib.rs 257-260: the pixel is transparent.
SkipTransparent ==
    /\ pc = "scan" /\ ~LoopDone
    /\ ~is_processed(x, y)
    /\ get_pixel_color(x, y) = None
    /\ processed' = [processed EXCEPT ![y][x] = TRUE]
    /\ writes' = [writes EXCEPT ![y][x] = @ + 1]
    /\ x' = NextPos(x, y)[1]
    /\ y' = NextPos(x, y)[2]
    /\ UNCHANGED <<image, width, height, alpha_threshold, rectangles, rect, pc,
                   results, svgVars>>

\* lib.rs 253-254: the pixel anchors a rectangle.
FindRect ==
    /\ pc = "scan" /\ ~LoopDone
    /\ ~is_processed(x, y)
    /\ get_pixel_color(x, y) # None
    /\ rect' = Some(find_max_rectangle(x, y, get_pixel_color(x, y)[1]))
    /\ pc' = "found"
    /\ UNCHANGED <<image, width, height, processed, alpha_threshold, rectangles,
                   x, y, results, writes, svgVars>>

\* lib.rs 255-256: the rectangle is marked and pushed.
EmitRect ==
    /\ pc = "found"
    /\ processed' = mark_processed(rect[1])
    /\ writes' = CountMarks(rect[1])
    /\ rectangles' = Append(rectangles, rect[1])
    /\ rect' = None
    /\ pc' = "scan"
    /\ x' = NextPos(x, y)[1]
    /\ y' = NextPos(x, y)[2]
    /\ UNCHANGED <<image, width, height, alpha_threshold, results, svgVars>>

\* lib.rs 264: extract_rectangles returns.
Return ==
    /\ pc = "scan" /\ LoopDone
    /\ pc' = "done"
    /\ results' = Append(results, rectangles)
    /\ UNCHANGED <<image, width, height, processed, alpha_threshold, rectangles,
                   x, y, rect, writes, svgVars>>

\* lib.rs 319-320: a further call on the same pixel buffer and threshold.
Convert ==
    /\ pc = "done"
    /\ Len(results) < MaxRuns
    /\ processed' = NewProcessed
    /\ writes' = FreshGrid(width, height, 0)
    /\ rectangles' = <<>>
    /\ x' = 0
    /\ y' = 0
    /\ rect' = None
    /\ pc' = "scan"
    /\ UNCHANGED <<image, width, height, alpha_threshold, results, svgVars>>

Next ==
    \/ SkipProcessed
    \/ SkipTransparent
    \/ FindRect
    \/ EmitRect
    \/ Return
    \/ Convert

Spec == Init /\ [][Next]_vars

-----------------------------------------------------------------------------
(* u32 and f32 arithmetic *)

\* A u32 as two 16-bit limbs, [hi, lo], standing for hi * 2^16 + lo.
Limb == 2 ^ 16

\* n * s in u32, for a u32 n < 2^31 and a scale s <= MaxScale: the low 32 bits
\* of the product (what a build without overflow checks computes).
wrapping_mul(n, s) ==
    LET p0 == (n % Limb) * s
        p1 == ((n \div Limb) * s) + (p0 \div Limb)
    IN  [hi |-> p1 % Limb, lo |-> p0 % Limb]

\* n * s does not fit 32 bits (a build with overflow checks panics here).
mul_overflows(n, s) ==
    LET p0 == (n % Limb) * s
        p1 == ((n \div Limb) * s) + (p0 \div Limb)
    IN  p1 \div Limb > 0

\* Binary long division n / d: the quotient bits are produced until the
\* quotient has the 24 significant bits of an f32. <<q, r, e>> with
\* n * 2^e = q * d + r and 2^23 <= q < 2^24.
RECURSIVE F32Quotient(_, _, _, _)
F32Quotient(q, r, d, e) ==
    IF q >= 2 ^ 23 THEN <<q, r, e>>
    ELSE F32Quotient(2 * q + (IF 2 * r >= d THEN 1 ELSE 0),
                     IF 2 * r >= d THEN 2 * r - d ELSE 2 * r, d, e + 1)

\* The f32 quotient n / d of two small integers, IEEE round-to-nearest-even:
\* [m, e] stands for m / 2^e, and m = 0 for zero.
f32_div(n, d) ==
    IF n = 0 THEN [m |-> 0, e |-> 0]
    ELSE LET t == F32Quotient(n \div d, n % d, d, 0)
             up == 2 * t[2] > d \/ (2 * t[2] = d /\ t[1] % 2 = 1)
             m == IF up THEN t[1] + 1 ELSE t[1]
         IN  IF m = 2 ^ 24 THEN [m |-> 2 ^ 23, e |-> t[3] - 1] ELSE [m |-> m, e |-> t[3]]

\* format!("{:.3}", v) of an f32 v = m / 2^e in [0, 1]: the exact value rounded
\* to thousandths, ties to even, as an integer part and three decimal digits.
fmt_3(v) ==
    LET f == v.e - 12
        mh == v.m \div 4096
        ml == v.m % 4096
        A == (mh * 1000) + ((ml * 1000) \div 4096)
        B == (ml * 1000) % 4096
        fl == A \div (2 ^ f)
        rem == A % (2 ^ f)
        half == 2 ^ (f - 1)
        up == rem > half \/ (rem = half /\ (B > 0 \/ fl % 2 = 1))
        t == IF v.m = 0 THEN 0 ELSE IF up THEN fl + 1 ELSE fl
    IN  [int |-> t \div 1000,
         frac |-> <<(t % 1000) \div 100, (t % 100) \div 10, t % 10>>]

-----------------------------------------------------------------------------
(* Color and Rectangle, the SVG side *)

AlphaOpaque == 255

MaxScale == 1000

HexDigit == <<"0", "1", "2", "3", "4", "5", "6", "7", "8", "9",
              "A", "B", "C", "D", "E", "F">>

\* {:02X}
Hex2(v) == <<HexDigit[(v \div 16) + 1], HexDigit[(v % 16) + 1]>>

to_hex(c) == Hex2(c.r) \o Hex2(c.g) \o Hex2(c.b)

\* Divides by 256 instead of 255.
opacity_256(c) == f32_div(c.a, 256)

opacity(c) == f32_div(c.a, AlphaOpaque)

\* Scales the position and leaves the size as it is.
to_svg_position_only(r, scale) ==
    [tag |-> "rect",
     x |-> wrapping_mul(r.x, scale),
     y |-> wrapping_mul(r.y, scale),
     width |-> wrapping_mul(r.width, 1),
     height |-> wrapping_mul(r.height, 1),
     fill |-> <<"#">> \o to_hex(r.color),
     opacity |-> IF r.color.a # AlphaOpaque THEN Some(fmt_3(opacity(r.color))) ELSE None]

\* The rect element: the attribute values in the order of the format string.
to_svg(r, scale) ==
    [tag |-> "rect",
     x |-> wrapping_mul(r.x, scale),
     y |-> wrapping_mul(r.y, scale),
     width |-> wrapping_mul(r.width, scale),
     height |-> wrapping_mul(r.height, scale),
     fill |-> <<"#">> \o to_hex(r.color),
     opacity |-> IF r.color.a # AlphaOpaque THEN Some(fmt_3(opacity(r.color))) ELSE None]

\* One of the four products of to_svg overflows.
to_svg_overflows(r, scale) ==
    \/ mul_overflows(r.x, scale)
    \/ mul_overflows(r.y, scale)
    \/ mul_overflows(r.width, scale)
    \/ mul_overflows(r.height, scale)

\* create_svg, lines 342-357: the XML declaration and the opening tag.
svg_header(w, h, opts) ==
    << [tag |-> "?xml", version |-> "1.0", encoding |-> "UTF-8"],
       [tag |-> "svg", version |-> "1.1",
        width |-> wrapping_mul(w, opts.scale),
        height |-> wrapping_mul(h, opts.scale),
        xmlns |-> "http://www.w3.org/2000/svg",
        shape_rendering |-> IF opts.crisp_edges THEN Some("crispEdges") ELSE None] >>

svg_header_overflows(w, h, opts) ==
    mul_overflows(w, opts.scale) \/ mul_overflows(h, opts.scale)

-----------------------------------------------------------------------------
(* create_svg on a rectangle slice, at scale 1 and then at scale k *)

MaxSvgRects == 2

\* Scale factors of the second call.
Scales == {1, 2, 4, MaxScale - 1, MaxScale}

\* Image sizes: small ones, and ones whose multiples leave 32 bits.
SvgWidths == {2, 4364968}

SvgHeights == {1, 2147480001}

SvgColors == { Color_new(255, 0, 0, 255), Color_new(18, 171, 239, 128) }

\* Rectangles inside a w x h image.
SvgRects(w, h) ==
    { r \in { Rectangle_new(rx, ry, rw, 1, c) :
                  rx \in {0, 4294968}, ry \in {0, 5, 2147480000}, rw \in {1, 70000},
                  c \in SvgColors } :
        r.x + r.width <= w /\ r.y + r.height <= h }

Disjoint(r, q) ==
    \/ r.x + r.width <= q.x \/ q.x + q.width <= r.x
    \/ r.y + r.height <= q.y \/ q.y + q.height <= r.y

\* The slices an extraction can hand over: anchors in raster order, footprints
\* disjoint.
RECURSIVE SvgInputs(_, _, _)
SvgInputs(w, h, n) ==
    IF n = 0 THEN { <<>> }
    ELSE LET shorter == SvgInputs(w, h, n - 1)
         IN  shorter \cup
             { Append(s, r) : s \in { t \in shorter : Len(t) = n - 1 }, r \in SvgRects(w, h) }

WellFormed(s) ==
    \A i, j \in 1 .. Len(s) :
        i < j => /\ (s[i].y < s[j].y \/ (s[i].y = s[j].y /\ s[i].x < s[j].x))
                 /\ Disjoint(s[i], s[j])

InitSvg ==
    /\ width \in SvgWidths
    /\ height \in SvgHeights
    /\ rectangles \in { s \in SvgInputs(width, height, MaxSvgRects) : WellFormed(s) }
    /\ options \in { [NoOptions EXCEPT !.crisp_edges = b] : b \in BOOLEAN }
    /\ svg = <<>>
    /\ idx = 0
    /\ docs = <<>>
    /\ pc = "svg_begin"
    /\ image = <<>>
    /\ processed = <<>>
    /\ writes = <<>>
    /\ alpha_threshold = options.alpha_threshold
    /\ x = 0
    /\ y = 0
    /\ rect = None
    /\ results = <<>>

\* lib.rs 339-357
SvgOpen ==
    /\ pc = "svg_begin"
    /\ svg' = svg_header(width, height, options)
    /\ idx' = 1
    /\ pc' = "svg_rects"
    /\ UNCHANGED <<extractVars, options, docs>>

\* lib.rs 360-363: one iteration of the loop.
SvgRect ==
    /\ pc = "svg_rects"
    /\ idx <= Len(rectangles)
    /\ svg' = Append(svg, to_svg(rectangles[idx], options.scale))
    /\ idx' = idx + 1
    /\ UNCHANGED <<extractVars, options, docs, pc>>

\* lib.rs 366-369: the closing tag; the text is returned.
SvgClose ==
    /\ pc = "svg_rects"
    /\ idx > Len(rectangles)
    /\ svg' = Append(svg, [tag |-> "/svg"])
    /\ docs' = Append(docs, svg')
    /\ pc' = "svg_done"
    /\ UNCHANGED <<extractVars, options, idx>>

\* lib.rs 347, 348, 127-130: in a build with overflow checks a product that
\* does not fit a u32 panics, and no document is returned.
SvgPanic ==
    /\ \/ pc = "svg_begin" /\ svg_header_overflows(width, height, options)
       \/ /\ pc = "svg_rects"
          /\ idx <= Len(rectangles)
          /\ to_svg_overflows(rectangles[idx], options.scale)
    /\ pc' = "panic"
    /\ UNCHANGED <<extractVars, svgVars>>

\* The same slice and image size again, with scale k.
SvgRescale ==
    /\ pc = "svg_done"
    /\ Len(docs) = 1
    /\ \E k \in Scales : options' = [options EXCEPT !.scale = k]
    /\ svg' = <<>>
    /\ idx' = 0
    /\ pc' = "svg_begin"
    /\ UNCHANGED <<extractVars, docs>>

NextSvg ==
    \/ SvgOpen
    \/ SvgRect
    \/ SvgClose
    \/ SvgPanic
    \/ SvgRescale

SpecSvg == InitSvg /\ [][NextSvg]_vars

-----------------------------------------------------------------------------
(* Rectangle::to_svg on one rectangle *)

Alphas == 0 .. AlphaOpaque

RectInputs ==
    { Rectangle_new(rx, 0, rw, 1, Color_new(18, 171, 239, a)) :
          rx \in {0, 4294968}, rw \in {1, 70000}, a \in Alphas }

InitRect ==
    /\ rect \in { Some(r) : r \in RectInputs }
    /\ options \in { [NoOptions EXCEPT !.scale = k] : k \in Scales }
    /\ svg = <<>>
    /\ idx = 0
    /\ docs = <<>>
    /\ pc = "rect_begin"
    /\ width = rect[1].x + rect[1].width
    /\ height = 1
    /\ rectangles = <<>>
    /\ image = <<>>
    /\ processed = <<>>
    /\ writes = <<>>
    /\ alpha_threshold = options.alpha_threshold
    /\ x = 0
    /\ y = 0
    /\ results = <<>>

\* lib.rs 124-140
RectToSvg ==
    /\ pc = "rect_begin"
    /\ svg' = <<to_svg(rect[1], options.scale)>>
    /\ pc' = "rect_done"
    /\ UNCHANGED <<extractVars, options, idx, docs>>

\* lib.rs 127-130 in a build with overflow checks.
RectPanic ==
    /\ pc = "rect_begin"
    /\ to_svg_overflows(rect[1], options.scale)
    /\ pc' = "panic"
    /\ UNCHANGED <<extractVars, svgVars>>

NextRect ==
    \/ RectToSvg
    \/ RectPanic

SpecRect == InitRect /\ [][NextRect]_vars

-----------------------------------------------------------------------------
(* Properties of the extraction *)

Pixels == { p \in (0 .. width - 1) \X (0 .. height - 1) : TRUE }

Alpha(px, py) == image[py][px].a

\* The emitted rectangles whose footprint holds pixel (px, py).
Covering(px, py) ==
    { i \in 1 .. Len(rectangles) : InRect(rectangles[i], px, py) }

\* (px, py) comes before (qx, qy) in raster order.
RasterBefore(px, py, qx, qy) == py < qy \/ (py = qy /\ px < qx)

\* The scan has been at (px, py) and left it.
Visited(px, py) == RasterBefore(px, py, x, y)

\* The emitted rectangles, and the one found and not yet pushed.
AllRects ==
    { rectangles[i] : i \in 1 .. Len(rectangles) } \cup { rect[i] : i \in 1 .. Len(rect) }

\* What the growth of rectangle r may absorb: an in-bounds pixel that is
\* uncovered, not transparent and of r's colour in all four channels.
Ok(r, px, py) ==
    /\ 0 <= px /\ px < width /\ 0 <= py /\ py < height
    /\ ~processed[py][px]
    /\ Alpha(px, py) >= alpha_threshold
    /\ image[py][px] = r.color

RowOk(r, py) == \A px \in r.x .. r.x + r.width - 1 : Ok(r, px, py)

ColOk(r, px) == \A py \in r.y .. r.y + r.height - 1 : Ok(r, px, py)

\* C1 Tiling completeness: when extract_rectangles has returned, every entry of
\* the coverage grid is true, every pixel with alpha >= T lies in the footprint
\* of exactly one emitted rectangle, every pixel with alpha < T lies in none,
\* and no footprint leaves the W x H grid.
C1_TilingCompleteness ==
    pc = "done" =>
        /\ \A p \in Pixels :
            /\ processed[p[2]][p[1]]
            /\ Alpha(p[1], p[2]) >= alpha_threshold => Cardinality(Covering(p[1], p[2])) = 1
            /\ Alpha(p[1], p[2]) < alpha_threshold => Covering(p[1], p[2]) = {}
        /\ \A i \in 1 .. Len(rectangles) :
            /\ rectangles[i].x + rectangles[i].width <= width
            /\ rectangles[i].y + rectangles[i].height <= height

\* An extraction that emitted a rectangle of at least 2 x 2 and another one,
\* and skipped a transparent pixel.
C1_Witness ==
    /\ pc = "done"
    /\ Len(rectangles) >= 2
    /\ \E i \in 1 .. Len(rectangles) : rectangles[i].width >= 2 /\ rectangles[i].height >= 2
    /\ \E p \in Pixels : Alpha(p[1], p[2]) < alpha_threshold

\* C2 Rectangle invariant and colour purity: every rectangle of the extraction
\* has width >= 1 and height >= 1, its footprint lies inside the image, and
\* every pixel of the footprint equals the rectangle's colour in R, G, B and A.
C2_ColorPurity ==
    \A r \in AllRects :
        /\ r.width >= 1 /\ r.height >= 1
        /\ r.x >= 0 /\ r.y >= 0
        /\ r.x + r.width <= width /\ r.y + r.height <= height
        /\ \A px \in r.x .. r.x + r.width - 1 : \A py \in r.y .. r.y + r.height - 1 :
            /\ image[py][px].r = r.color.r
            /\ image[py][px].g = r.color.g
            /\ image[py][px].b = r.color.b
            /\ image[py][px].a = r.color.a

\* A rectangle of more than one pixel whose right neighbour has its RGB, another
\* alpha, and is not transparent.
C2_Witness ==
    \E i \in 1 .. Len(rectangles) :
        LET r == rectangles[i]
        IN  /\ r.width * r.height >= 2
            /\ r.x + r.width < width
            /\ Color_eq_rgb(image[r.y][r.x + r.width], r.color)
            /\ image[r.y][r.x + r.width].a # r.color.a
            /\ image[r.y][r.x + r.width].a >= alpha_threshold

\* C3 Transparency exclusion: a pixel with alpha < T is in no rectangle's
\* footprint and anchors none; once the scan has passed it, it is marked
\* covered; an image whose pixels all have alpha < T yields no rectangle and a
\* grid that is true everywhere.
C3_TransparencyExclusion ==
    /\ \A r \in AllRects :
        /\ Alpha(r.x, r.y) >= alpha_threshold
        /\ \A p \in Pixels : InRect(r, p[1], p[2]) => Alpha(p[1], p[2]) >= alpha_threshold
    /\ \A p \in Pixels :
        (Alpha(p[1], p[2]) < alpha_threshold /\ Visited(p[1], p[2])) => processed[p[2]][p[1]]
    /\ (pc = "done" /\ \A p \in Pixels : Alpha(p[1], p[2]) < alpha_threshold) =>
        /\ rectangles = <<>>
        /\ \A p \in Pixels : processed[p[2]][p[1]]

\* A finished extraction with a rectangle whose right neighbour has the
\* rectangle's RGB and is transparent.
C3_Witness ==
    /\ pc = "done"
    /\ \E i \in 1 .. Len(rectangles) :
        LET r == rectangles[i]
        IN  /\ r.x + r.width < width
            /\ Color_eq_rgb(image[r.y][r.x + r.width], r.color)
            /\ Alpha(r.x + r.width, r.y) < alpha_threshold

C7_GreedyRule ==
    pc = "found" =>
        LET r == rect[1]
        IN  /\ r.x = x /\ r.y = y /\ r.color = image[y][x]
            /\ r.width >= 1 /\ r.height >= 1
            /\ \A px \in r.x .. r.x + r.width - 1 : Ok(r, px, r.y)
            /\ ~Ok(r, r.x + r.width, r.y)
            /\ \A py \in r.y .. r.y + r.height - 1 : RowOk(r, py)
            /\ ~RowOk(r, r.y + r.height)

\* A rectangle at least two wide and one high although the pixel under its
\* anchor could be absorbed: a narrower rectangle would be taller.
C7_Witness ==
    /\ pc = "found"
    /\ rect[1].width >= 2
    /\ rect[1].height = 1
    /\ Ok(rect[1], rect[1].x, rect[1].y + 1)

\* C8 Raster emission order: the anchors of the emitted rectangles increase
\* strictly in raster order; when a rectangle is found its anchor is uncovered
\* and not transparent, it comes after every earlier anchor, and every pixel
\* before it in raster order is covered already.
C8_RasterOrder ==
    /\ \A i, j \in 1 .. Len(rectangles) :
        i < j => RasterBefore(rectangles[i].x, rectangles[i].y,
                              rectangles[j].x, rectangles[j].y)
    /\ pc = "found" =>
        LET r == rect[1]
        IN  /\ \A i \in 1 .. Len(rectangles) :
                RasterBefore(rectangles[i].x, rectangles[i].y, r.x, r.y)
            /\ ~processed[r.y][r.x]
            /\ Alpha(r.x, r.y) >= alpha_threshold
            /\ \A p \in Pixels :
                RasterBefore(p[1], p[2], r.x, r.y) => processed[p[2]][p[1]]

\* A third rectangle is found, in a later row than the first, after a
\* transparent pixel was passed.
C8_Witness ==
    /\ pc = "found"
    /\ Len(rectangles) >= 2
    /\ rect[1].y > rectangles[1].y
    /\ rect[1].x > 0
    /\ \E p \in Pixels :
        /\ RasterBefore(p[1], p[2], rect[1].x, rect[1].y)
        /\ Alpha(p[1], p[2]) < alpha_threshold

\* The grid entry of every pixel is true exactly when the pixel lies in an
\* emitted rectangle or is a transparent pixel the scan has passed, and it was
\* stored to once if it is true and never if it is false.
GridExact ==
    \A p \in Pixels :
        /\ processed[p[2]][p[1]] <=>
            \/ Covering(p[1], p[2]) # {}
            \/ (Alpha(p[1], p[2]) < alpha_threshold /\ Visited(p[1], p[2]))
        /\ writes[p[2]][p[1]] = IF processed[p[2]][p[1]] THEN 1 ELSE 0

\* Within one call no entry goes back to false and no true entry is stored to.
GridStep ==
    pc # "done" =>
        \A p \in Pixels :
            processed[p[2]][p[1]] =>
                /\ processed'[p[2]][p[1]]
                /\ writes'[p[2]][p[1]] = writes[p[2]][p[1]]

\* C9 Coverage grid, exactly-once marking: the grid starts all false; in every
\* state of an extraction an entry is true iff its pixel lies in an emitted
\* rectangle or is a transparent pixel already visited; an entry once true is
\* never reset, and neither mark_processed nor the transparent branch stores
\* to an entry that is true already.
C9_ExactlyOnce ==
    /\ (pc = "scan" /\ x = 0 /\ y = 0 /\ rectangles = <<>>) =>
            \A p \in Pixels : ~processed[p[2]][p[1]]
    /\ []GridExact
    /\ [][GridStep]_vars

\* A rectangle of several pixels and a transparent pixel are marked, and a
\* pixel is not marked yet.
C9_Witness ==
    /\ pc = "scan"
    /\ \E i \in 1 .. Len(rectangles) : rectangles[i].width * rectangles[i].height >= 2
    /\ \E p \in Pixels : Alpha(p[1], p[2]) < alpha_threshold /\ writes[p[2]][p[1]] = 1
    /\ \E p \in Pixels : ~processed[p[2]][p[1]]

\* C10 Maximality: the rectangle found cannot be enlarged by a full adjacent
\* line: neither the column to its right or left over its rows, nor the row
\* below or above over its columns, consists of pixels it may absorb.
C10_Maximality ==
    pc = "found" =>
        LET r == rect[1]
        IN  /\ r.width >= 1 /\ r.height >= 1
            /\ ~ColOk(r, r.x + r.width)
            /\ ~ColOk(r, r.x - 1)
            /\ ~RowOk(r, r.y + r.height)
            /\ ~RowOk(r, r.y - 1)

\* A rectangle away from the left and top edges whose left neighbour has its
\* colour and is covered by an earlier rectangle.
C10_Witness ==
    /\ pc = "found"
    /\ rect[1].x >= 1
    /\ rect[1].y >= 1
    /\ image[rect[1].y][rect[1].x - 1] = rect[1].color
    /\ processed[rect[1].y][rect[1].x - 1]

-----------------------------------------------------------------------------
(* Properties of the emission *)

\* The u32 vk is k times the u32 v1 in u32 arithmetic: k * v1 = vk + q * 2^32.
\* (c is the carry out of the low limb, q the part lost beyond 32 bits.)
TimesK(v1, vk, k) ==
    LET c == (k * v1.lo - vk.lo) \div Limb
        q == (k * v1.hi + c - vk.hi) \div Limb
    IN  /\ vk.lo \in 0 .. Limb - 1 /\ vk.hi \in 0 .. Limb - 1
        /\ k * v1.lo = vk.lo + c * Limb
        /\ k * v1.hi + c = vk.hi + q * Limb

\* C5 Scale linearity: the document emitted with scale k has as many elements
\* as the one emitted with scale 1, in the same order; its width and height and
\* the x, y, width and height of every rect element are k times those of the
\* scale-1 document in u32 arithmetic, and everything else is the same.
C5_ScaleLinearity ==
    Len(docs) = 2 =>
        LET d1 == docs[1]
            dk == docs[2]
            k == options.scale
        IN  /\ Len(dk) = Len(d1)
            /\ Len(d1) = Len(rectangles) + 3
            /\ dk[1] = d1[1]
            /\ dk[2].tag = "svg"
            /\ TimesK(d1[2].width, dk[2].width, k)
            /\ TimesK(d1[2].height, dk[2].height, k)
            /\ dk[2].shape_rendering = d1[2].shape_rendering
            /\ \A i \in 3 .. Len(d1) - 1 :
                /\ dk[i].tag = "rect" /\ d1[i].tag = "rect"
                /\ TimesK(d1[i].x, dk[i].x, k)
                /\ TimesK(d1[i].y, dk[i].y, k)
                /\ TimesK(d1[i].width, dk[i].width, k)
                /\ TimesK(d1[i].height, dk[i].height, k)
                /\ dk[i].fill = d1[i].fill
                /\ dk[i].opacity = d1[i].opacity
            /\ dk[Len(dk)] = d1[Len(d1)]

\* Two rectangles away from the origin and wider than a pixel, emitted at
\* scale 1 and at scale 4.
C5_Witness ==
    /\ Len(docs) = 2
    /\ options.scale = 4
    /\ Len(rectangles) = 2
    /\ rectangles[2].x > 0 /\ rectangles[2].y > 0 /\ rectangles[2].width > 1
    /\ ~to_svg_overflows(rectangles[2], options.scale)

\* C6 Opacity formatting: the rect element carries an opacity attribute iff the
\* colour's alpha is not 255; its value has an integer part and exactly three
\* decimal digits and is the thousandth nearest to alpha / 255.
C6_OpacityFormat ==
    pc = "rect_done" =>
        LET a == rect[1].color.a
            o == svg[1].opacity
        IN  /\ (o # None) <=> (a # 255)
            /\ a # 255 =>
                LET t == o[1].int * 1000 + o[1].frac[1] * 100 + o[1].frac[2] * 10 + o[1].frac[3]
                    err == 1000 * a - 255 * t
                IN  /\ Len(o[1].frac) = 3
                    /\ \A i \in 1 .. 3 : o[1].frac[i] \in 0 .. 9
                    /\ o[1].int \in {0, 1}
                    /\ 2 * err <= 255 /\ -255 <= 2 * err

\* Alpha 128 is emitted as opacity="0.502".
C6_Witness ==
    /\ pc = "rect_done"
    /\ rect[1].color.a = 128
    /\ svg[1].opacity = Some([int |-> 0, frac |-> <<5, 0, 2>>])

====
